---------------------------- MODULE Spec2Model ----------------------------
(***************************************************************************)
(* A model of the pureflashblade MCP server (src/src/pureflashblade/       *)
(* server.py): the tool dispatcher handle_call_tool, the SDK facade        *)
(* FlashbladeClient (__init__, call_endpoint) and the serializer json_log. *)
(*                                                                         *)
(* handle_call_tool is an async function without a single await, so one    *)
(* tool call runs from its first line to its return or raise without any   *)
(* other task of the session running in between: the model handles one     *)
(* call at a time and splits it into steps at the calls it makes to the    *)
(* vendor SDK.  The vendor SDK (pypureclient) and the array behind it are  *)
(* the environment: what a construction or a method call does (returns     *)
(* a response, raises PureError, raises something else) is chosen          *)
(* nondeterministically.                                                   *)
(*                                                                         *)
(* A Python str is a sequence of chunks of text (a chunk is a run of       *)
(* ordinary characters, or the single character " or \), so that           *)
(* json.dumps has characters to escape.                                    *)
(***************************************************************************)
EXTENDS Integers, Sequences, FiniteSets, TLC

\* ------------------------------------------------------------------ bounds

\* Tool calls handled in one session.
MaxCalls == 2
\* Items of the largest itemized SDK response.
MaxItems == 2
\* Milliseconds the clock may advance between two reads of datetime.now().
MaxTick == 1

\* ---------------------------------------------------------- Python values

None == [type |-> "NoneType"]

Str(s) == [type |-> "str", chars |-> s]

Dict(f) == [type |-> "dict", items |-> f]

PyInt(n) == [type |-> "int", val |-> n]

\* A key that a dict does not hold (used only to enumerate dicts).
Absent == [type |-> "absent"]

\* The dict holding the keys of `full` whose value is not Absent.
MkDict(full) ==
    Dict([k \in {x \in DOMAIN full : full[x] # Absent} |-> full[k]])

\* Python's truth value of v (`not v` is its negation).
Truthy(v) ==
    CASE v.type = "NoneType" -> FALSE
      [] v.type = "str" -> v.chars # <<>>
      [] v.type = "dict" -> DOMAIN v.items # {}
      [] v.type = "int" -> v.val # 0
      [] OTHER -> TRUE

\* d.get(k, default)
DictGet(d, k, default) ==
    IF k \in DOMAIN d.items THEN d.items[k] ELSE default

\* ------------------------------------------------------------ json.dumps

Digits == <<"0", "1", "2", "3", "4", "5", "6", "7", "8", "9">>

RECURSIVE DumpsInt(_)
\* json.dumps of a non-negative int: its decimal digits.
DumpsInt(n) ==
    IF n < 10 THEN <<Digits[n + 1]>>
    ELSE DumpsInt(n \div 10) \o <<Digits[(n % 10) + 1]>>

RECURSIVE EscapeChars(_)
\* The body of a JSON string: " and \ are escaped with a backslash.
EscapeChars(s) ==
    IF s = <<>> THEN <<>>
    ELSE (IF Head(s) \in {"\"", "\\"} THEN <<"\\", Head(s)>> ELSE <<Head(s)>>)
         \o EscapeChars(Tail(s))

\* json.dumps of a str.
DumpsStr(s) == <<"\"">> \o EscapeChars(s) \o <<"\"">>

\* json.dumps({"error": message})
DumpsError(message) ==
    <<"{">> \o DumpsStr(<<"error">>) \o <<": ">> \o DumpsStr(message) \o <<"}">>

\* item.to_dict() of the SDK model object with identifier i.
to_dict(i) == [id |-> i]

\* json.dumps of an item's dictionary form.
DumpsItemDict(d) ==
    <<"{">> \o DumpsStr(<<"id">>) \o <<": ">> \o DumpsInt(d.id) \o <<"}">>

RECURSIVE JoinDicts(_)
JoinDicts(ds) ==
    IF ds = <<>> THEN <<>>
    ELSE IF Len(ds) = 1 THEN DumpsItemDict(Head(ds))
    ELSE DumpsItemDict(Head(ds)) \o <<", ">> \o JoinDicts(Tail(ds))

\* json.dumps of a list of dictionary forms.
DumpsList(ds) == <<"[">> \o JoinDicts(ds) \o <<"]">>

\* ----------------------------------------------------- outcomes of a call

Returned(v) == [kind |-> "return", value |-> v]

Raised(exc, msg) == [kind |-> "raise", exc |-> exc, msg |-> msg]

\* ------------------------------------------- the vendor SDK (environment)

\* The methods of flashblade.Client that the model's requests can name.
SdkMethods ==
    {<<"get_arrays">>, <<"get_arrays_space">>, <<"get_arrays_performance">>,
     <<"get_buckets">>}

\* The item sequences of itemized responses: none, and MaxItems items in
\* ascending and in descending order of their identifiers.
ItemSeqs ==
    {<<>>, [i \in 1..MaxItems |-> i], [i \in 1..MaxItems |-> MaxItems + 1 - i]}

\* pypureclient.responses.ValidResponse objects: `truthy` is the object's
\* truth value, `has_items` whether it has an attribute `items`.
ValidResponse(truthy, has_items, items) ==
    [type |-> "ValidResponse", truthy |-> truthy, has_items |-> has_items,
     items |-> items]

ErrorResponse == [type |-> "ErrorResponse"]

SdkResponses ==
    {ValidResponse(TRUE, TRUE, s) : s \in ItemSeqs}
    \cup {ValidResponse(FALSE, TRUE, <<>>), ValidResponse(TRUE, FALSE, <<>>)}
    \cup {ErrorResponse}

\* What flashblade.Client(target=..., api_token=...) may do.
SdkLoginOutcomes ==
    {Returned(None),
     Raised("PureError", <<"login failed">>),
     Raised("ConnectionError", <<"connection refused">>)}

\* What a method of flashblade.Client may do when called.
SdkCallOutcomes ==
    {Returned(r) : r \in SdkResponses}
    \cup {Raised("PureError", <<"request failed">>),
          Raised("TypeError", <<"unexpected keyword argument">>)}

\* The outcome recorded for a call_endpoint that never reached the SDK.
NotCalled == [kind |-> "not called"]

\* --------------------------------------------------------------- requests

ToolNames == {"pure-fb", "get-array-full"}

Hosts == {Str(<<"10.0.0.1">>), Str(<<"10.0.0.2">>)}

Tokens == {Str(<<"T">>)}

Commands ==
    {Str(<<"get_buckets">>), Str(<<"nonexistent_method">>),
     Str(<<"get", "\"", "x">>)}

\* `parameters` values: {}, one SDK argument, a key that is also a
\* positional parameter of call_endpoint, and JSON null.
ParameterValues ==
    {Dict(<<>>), Dict([limit |-> PyInt(1)]),
     Dict([method_name |-> Str(<<"get_arrays">>)]), None}

ToolRequests ==
    {[name |-> n, arguments |-> a] :
        n \in ToolNames \cup {"list-arrays"}, a \in {None, Dict(<<>>)}}
    \cup {[name |-> "pure-fb",
           arguments |-> MkDict([host |-> h, api_token |-> t,
                                 command |-> c, parameters |-> p])] :
            h \in Hosts \cup {Absent, Str(<<>>)},
            t \in Tokens \cup {Absent, Str(<<>>)},
            c \in Commands \cup {Absent, Str(<<>>)},
            p \in ParameterValues \cup {Absent}}
    \cup {[name |-> n, arguments |-> MkDict([host |-> h, api_token |-> t])] :
            n \in {"get-array-full", "list-arrays"},
            h \in Hosts \cup {Absent, Str(<<>>)},
            t \in Tokens \cup {Absent, Str(<<>>)}}

\* The instants (milliseconds on the clock) at which a call may read the clock.
Instants == {0, 999}

\* ------------------------------------------------------------------ state

VARIABLES
    pc,               \* where the current call of handle_call_tool stands
    callNo,           \* tool calls received so far in this session
    name,             \* handle_call_tool's parameter `name`
    arguments,        \* handle_call_tool's parameter `arguments`
    query_host,       \* local of handle_call_tool
    query_api_token,  \* local of handle_call_tool
    fb_client,        \* local of handle_call_tool: the facade
    method_name,      \* call_endpoint's parameter, for the call being made
    kwargs,           \* call_endpoint's **kwargs, for the call being made
    response,         \* what the last call_endpoint returned
    payloads,         \* the json_log results of this call, in order
    result,           \* how the call ended: a raise or a returned value
    trace,            \* history: what this call has done so far, in order
    last_client,      \* history: the facade most recently constructed
    prev              \* history: summary of the previous call (SpecPair only)

vars ==
    <<pc, callNo, name, arguments, query_host, query_api_token, fb_client,
      method_name, kwargs, response, payloads, result, trace, last_client,
      prev>>

\* A local variable that has not been assigned.
Unbound == [type |-> "unbound"]

Pending == [kind |-> "pending"]

\* `return [types.TextContent(type="text", text=...)]`
TextResult(text) ==
    [kind |-> "return", isError |-> FALSE,
     content |-> <<[type |-> "text", text |-> text]>>]

\* `except Exception as error: return types.CallToolResult(isError=True, ...)`
ErrorResult(error) ==
    [kind |-> "return", isError |-> TRUE,
     content |-> <<[type |-> "text", text |-> <<"Error: ">> \o error.msg]>>]

Init ==
    /\ pc = "idle"
    /\ callNo = 0
    /\ name = ""
    /\ arguments = None
    /\ query_host = Unbound
    /\ query_api_token = Unbound
    /\ fb_client = Unbound
    /\ method_name = Unbound
    /\ kwargs = Unbound
    /\ response = Unbound
    /\ payloads = <<>>
    /\ result = Pending
    /\ trace = <<>>
    /\ last_client = Unbound
    /\ prev = Unbound

\* ------------------------------------------------------- FlashbladeClient

\* FlashbladeClient with a constructor that lets PureError out.
FlashbladeClient_reraise(fb_host, fb_api_token, sdk) ==
    IF sdk.kind = "return"
    THEN Returned([type |-> "FlashbladeClient", born |-> callNo,
                   has_client |-> TRUE,
                   target |-> fb_host, api_token |-> fb_api_token])
    ELSE sdk

\* FlashbladeClient behind a session-wide cache: the facade of an earlier
\* call is handed out again.
FlashbladeClient_cached(fb_host, fb_api_token, sdk) ==
    IF last_client # [type |-> "unbound"]
    THEN Returned(last_client)
    ELSE IF sdk.kind = "raise" /\ sdk.exc # "PureError"
    THEN sdk
    ELSE Returned([type |-> "FlashbladeClient", born |-> callNo,
                   has_client |-> sdk.kind = "return",
                   target |-> fb_host, api_token |-> fb_api_token])

\* FlashbladeClient(fb_host, fb_api_token), where `sdk` is what
\* flashblade.Client(...) does: the facade, which has the attribute `client`
\* only if the SDK returned one; any exception but PureError propagates.
\* `born` is the object's identity: the call that constructed it.
FlashbladeClient(fb_host, fb_api_token, sdk) ==
    CASE sdk.kind = "return" ->
            Returned([type |-> "FlashbladeClient", born |-> callNo,
                      has_client |-> TRUE,
                      target |-> fb_host, api_token |-> fb_api_token])
      [] sdk.kind = "raise" /\ sdk.exc = "PureError" ->
            Returned([type |-> "FlashbladeClient", born |-> callNo,
                      has_client |-> FALSE,
                      target |-> fb_host, api_token |-> fb_api_token])
      [] OTHER -> sdk

\* Whether getattr(self.client, method_name) finds a method: `self.client`
\* itself raises AttributeError on a facade constructed without a client.
HasMethod(self, method) == self.has_client /\ method.chars \in SdkMethods

\* call_endpoint without its `except PureError`.
call_endpoint_propagates(self, method, kw, sdk) ==
    IF ~HasMethod(self, method)
    THEN [kind |-> "return", value |-> None, attempts |-> 0]
    ELSE IF sdk.kind = "return"
    THEN [kind |-> "return", value |-> sdk.value, attempts |-> 1]
    ELSE [kind |-> "raise", exc |-> sdk.exc, msg |-> sdk.msg, attempts |-> 1]

\* self.call_endpoint(method, **kw), where `sdk` is what the SDK method does
\* when it is reached.  `attempts` counts the SDK method's invocations.
call_endpoint(self, method, kw, sdk) ==
    IF ~HasMethod(self, method)
    THEN [kind |-> "return", value |-> None, attempts |-> 0]
    ELSE CASE sdk.kind = "return" ->
                [kind |-> "return", value |-> sdk.value, attempts |-> 1]
           [] sdk.kind = "raise" /\ sdk.exc \in {"PureError", "AttributeError"} ->
                [kind |-> "return", value |-> None, attempts |-> 1]
           [] OTHER ->
                [kind |-> "raise", exc |-> sdk.exc, msg |-> sdk.msg,
                 attempts |-> 1]

\* --------------------------------------------------------------- json_log

\* json_log testing only hasattr(response, "items"), not the response's
\* truth value.
json_log_hasattr_only(resp, endpoint_name) ==
    IF resp.type = "ValidResponse"
    THEN IF resp.has_items
         THEN DumpsList([i \in 1..Len(resp.items) |-> to_dict(resp.items[i])])
         ELSE DumpsError(<<"No data available for ">> \o endpoint_name.chars)
    ELSE DumpsError(<<"Invalid response from ">> \o endpoint_name.chars)

\* The string json_log(response, endpoint_name) returns.
json_log(resp, endpoint_name) ==
    IF resp.type = "ValidResponse"
    THEN IF resp.truthy /\ resp.has_items
         THEN DumpsList([i \in 1..Len(resp.items) |-> to_dict(resp.items[i])])
         ELSE DumpsError(<<"No data available for ">> \o endpoint_name.chars)
    ELSE DumpsError(<<"Invalid response from ">> \o endpoint_name.chars)

\* ------------------------------------------------------- handle_call_tool

\* `not query_host and not query_api_token`
MissingCredentials_and(host, api_token) == ~Truthy(host) /\ ~Truthy(api_token)

\* `not query_host or not query_api_token`
MissingCredentials(host, api_token) == ~Truthy(host) \/ ~Truthy(api_token)

\* The checks made before the facade is constructed: the ValueError raised,
\* or a return when all of them pass.
Validate(n, a) ==
    IF n \notin ToolNames
    THEN Raised("ValueError", <<"Unknown tool: ", n>>)
    ELSE IF ~Truthy(a)
    THEN Raised("ValueError", <<"Missing arguments">>)
    ELSE IF MissingCredentials(DictGet(a, "host", None),
                               DictGet(a, "api_token", None))
    THEN Raised("ValueError", <<"Missing host or api_token">>)
    ELSE Returned(None)

\* arguments.get("parameters")
QueryParameters_no_default(a) == DictGet(a, "parameters", None)

\* arguments.get("parameters", {})
QueryParameters(a) == DictGet(a, "parameters", Dict(<<>>))

\* Whether call_endpoint(query_command, **parameters) binds its arguments:
\* `**` needs a mapping, and no key may name a positional parameter.
Binds(parameters) ==
    /\ parameters.type = "dict"
    /\ DOMAIN parameters.items \cap {"self", "method_name"} = {}

\* The TypeError of a call whose arguments do not bind.
BindError == Raised("TypeError", <<"call_endpoint() argument error">>)

WeekMs == 7 * 24 * 3600 * 1000

HourMs == 3600 * 1000

\* By how much the local UTC offset at the call may differ from the offset
\* seven days of local time earlier: nothing, or one hour either way when
\* daylight saving time began or ended within the week.
UtcOffsetChanges == {0, HourMs, 0 - HourMs}

\* e_end_time and e_start_time in milliseconds, from the two reads of
\* datetime.now(): the first gives the end, the second, taken back seven days
\* of local time and converted with timestamp(), the start.
TimeWindow(now_end, now_start, offset_change) ==
    [end_time |-> PyInt(now_end),
     start_time |-> PyInt(now_start - WeekMs + offset_change)]

\* str(v) inside an f-string.
Format(v) == IF v.type = "str" THEN v.chars ELSE <<"None">>

LogEvent(data) == [op |-> "send_log_message", level |-> "info", data |-> data]

\* What the previous call was, for comparing two calls.
Summary == [name |-> name, arguments |-> arguments, result |-> result,
            trace |-> trace]

\* A tool call arrives: handle_call_tool(n, a) up to the construction of the
\* facade.
HandleCallTool(n, a) ==
    /\ pc = "idle"
    /\ callNo < MaxCalls
    /\ callNo' = callNo + 1
    /\ name' = n
    /\ arguments' = a
    /\ fb_client' = Unbound
    /\ method_name' = Unbound
    /\ kwargs' = Unbound
    /\ response' = Unbound
    /\ payloads' = <<>>
    /\ UNCHANGED last_client
    /\ LET checked == Validate(n, a)
           reads == n \in ToolNames /\ Truthy(a)
           host == IF reads THEN DictGet(a, "host", None) ELSE Unbound
           token == IF reads THEN DictGet(a, "api_token", None) ELSE Unbound
       IN  /\ query_host' = host
           /\ query_api_token' = token
           /\ trace' = IF reads
                       THEN <<LogEvent(<<"Initializing query with '">>
                                       \o Format(host) \o <<"' and '">>
                                       \o Format(token) \o <<"'">>)>>
                       ELSE <<>>
           /\ result' = IF checked.kind = "raise" THEN checked ELSE Pending
           /\ pc' = IF checked.kind = "raise" THEN "done" ELSE "init_client"

\* fb_client = FlashbladeClient(fb_host=query_host, fb_api_token=query_api_token)
InitClient ==
    /\ pc = "init_client"
    /\ \E sdk \in SdkLoginOutcomes :
         LET made == FlashbladeClient(query_host, query_api_token, sdk)
         IN  /\ trace' = Append(trace, [op |-> "FlashbladeClient",
                                        fb_host |-> query_host,
                                        fb_api_token |-> query_api_token,
                                        sdk |-> sdk])
             /\ IF made.kind = "raise"
                THEN /\ result' = made
                     /\ pc' = "done"
                     /\ UNCHANGED <<fb_client, last_client>>
                ELSE /\ fb_client' = made.value
                     /\ last_client' = made.value
                     /\ pc' = IF name = "pure-fb" THEN "pure_fb"
                              ELSE "get_arrays"
                     /\ UNCHANGED result
    /\ UNCHANGED <<callNo, name, arguments, query_host, query_api_token,
                   method_name, kwargs, response, payloads, prev>>

\* pure-fb: the command check and the binding of the call's arguments.
PureFb ==
    /\ pc = "pure_fb"
    /\ LET query_command == DictGet(arguments, "command", None)
           query_parameters == QueryParameters(arguments)
       IN  IF ~Truthy(query_command)
           THEN /\ result' = Raised("ValueError", <<"Missing command">>)
                /\ pc' = "done"
                /\ UNCHANGED <<method_name, kwargs>>
           ELSE IF ~Binds(query_parameters)
           THEN /\ result' = ErrorResult(BindError)
                /\ pc' = "done"
                /\ UNCHANGED <<method_name, kwargs>>
           ELSE /\ method_name' = query_command
                /\ kwargs' = query_parameters
                /\ pc' = "call_endpoint"
                /\ UNCHANGED result
    /\ UNCHANGED <<callNo, name, arguments, query_host, query_api_token,
                   fb_client, response, payloads, trace, last_client, prev>>

\* fb_client.call_endpoint(method_name, **kwargs), and the dispatcher's
\* `except Exception` around it.
CallEndpoint ==
    /\ pc = "call_endpoint"
    /\ \E sdk \in (IF HasMethod(fb_client, method_name)
                   THEN SdkCallOutcomes ELSE {NotCalled}) :
         LET ret == call_endpoint(fb_client, method_name, kwargs, sdk)
         IN  /\ trace' = Append(trace, [op |-> "call_endpoint",
                                        self |-> fb_client,
                                        method_name |-> method_name,
                                        kwargs |-> kwargs,
                                        sdk |-> sdk, ret |-> ret])
             /\ IF ret.kind = "raise"
                THEN /\ result' = ErrorResult(ret)
                     /\ pc' = "done"
                     /\ UNCHANGED response
                ELSE /\ response' = ret.value
                     /\ pc' = "json_log"
                     /\ UNCHANGED result
    /\ UNCHANGED <<callNo, name, arguments, query_host, query_api_token,
                   fb_client, method_name, kwargs, payloads, last_client, prev>>

\* get-array-full going from its first fetch straight to the third.
AfterJsonLog_skips(tool, n) ==
    CASE tool = "pure-fb" -> "pure_fb_return"
      [] n = 1 -> "get_arrays_performance"
      [] OTHER -> "get_array_full_return"

\* The statement that follows the n-th json_log of a call of `tool`.
AfterJsonLog(tool, n) ==
    CASE tool = "pure-fb" -> "pure_fb_return"
      [] n = 1 -> "get_arrays_space"
      [] n = 2 -> "get_arrays_performance"
      [] OTHER -> "get_array_full_return"

\* json_log(response, <the method's name>): serializes and logs.
JsonLog ==
    /\ pc = "json_log"
    /\ LET json_data == json_log(response, method_name)
       IN  /\ payloads' = Append(payloads, json_data)
           /\ trace' = trace \o
                <<[op |-> "json_log", response |-> response,
                   endpoint_name |-> method_name, json_data |-> json_data],
                  LogEvent(method_name.chars \o <<": ">> \o json_data)>>
    /\ pc' = AfterJsonLog(name, Len(payloads) + 1)
    /\ UNCHANGED <<callNo, name, arguments, query_host, query_api_token,
                   fb_client, method_name, kwargs, response, result,
                   last_client, prev>>

\* return [types.TextContent(type="text", text=f"{response_info}")]
PureFbReturn ==
    /\ pc = "pure_fb_return"
    /\ result' = TextResult(payloads[1])
    /\ pc' = "done"
    /\ UNCHANGED <<callNo, name, arguments, query_host, query_api_token,
                   fb_client, method_name, kwargs, response, payloads, trace,
                   last_client, prev>>

\* get-array-full: the call of get_arrays is next.
GetArrays ==
    /\ pc = "get_arrays"
    /\ method_name' = Str(<<"get_arrays">>)
    /\ kwargs' = Dict(<<>>)
    /\ pc' = "call_endpoint"
    /\ UNCHANGED <<callNo, name, arguments, query_host, query_api_token,
                   fb_client, response, payloads, result, trace, last_client,
                   prev>>

\* get-array-full: the call of get_arrays_space is next.
GetArraysSpace ==
    /\ pc = "get_arrays_space"
    /\ method_name' = Str(<<"get_arrays_space">>)
    /\ kwargs' = Dict(<<>>)
    /\ pc' = "call_endpoint"
    /\ UNCHANGED <<callNo, name, arguments, query_host, query_api_token,
                   fb_client, response, payloads, result, trace, last_client,
                   prev>>

\* get-array-full: the two reads of the clock, then the call of
\* get_arrays_performance is next.  The first read happens at instant t, the
\* second d milliseconds later.
GetArraysPerformance ==
    /\ pc = "get_arrays_performance"
    /\ \E t \in Instants, d \in 0..MaxTick, c \in UtcOffsetChanges :
         kwargs' = Dict(TimeWindow(t, t + d, c))
    /\ method_name' = Str(<<"get_arrays_performance">>)
    /\ pc' = "call_endpoint"
    /\ UNCHANGED <<callNo, name, arguments, query_host, query_api_token,
                   fb_client, response, payloads, result, trace, last_client,
                   prev>>

\* The text get-array-full returns.
FullText(arrays_info, arrays_space, arrays_performance) ==
    <<"Arrays information: ">> \o arrays_info \o <<", space: ">>
    \o arrays_space \o <<", and performance: ">> \o arrays_performance

GetArrayFullReturn ==
    /\ pc = "get_array_full_return"
    /\ result' = TextResult(FullText(payloads[1], payloads[2], payloads[3]))
    /\ pc' = "done"
    /\ UNCHANGED <<callNo, name, arguments, query_host, query_api_token,
                   fb_client, method_name, kwargs, response, payloads, trace,
                   last_client, prev>>

\* The call is over: its result (or its exception) goes to the session that
\* called the handler, and the call's frame with its locals is gone.
Respond ==
    /\ pc = "done"
    /\ pc' = "idle"
    /\ query_host' = Unbound
    /\ query_api_token' = Unbound
    /\ fb_client' = Unbound
    /\ method_name' = Unbound
    /\ kwargs' = Unbound
    /\ response' = Unbound
    /\ payloads' = <<>>
    /\ result' = Pending
    /\ trace' = <<>>
    /\ name' = ""
    /\ arguments' = None
    /\ UNCHANGED <<callNo, last_client>>

\* --------------------------------------------------------- specifications

\* A session receiving any of ToolRequests, one call after the other.
Next ==
    \/ \E r \in ToolRequests :
         HandleCallTool(r.name, r.arguments) /\ UNCHANGED prev
    \/ InitClient
    \/ PureFb
    \/ CallEndpoint
    \/ JsonLog
    \/ PureFbReturn
    \/ GetArrays
    \/ GetArraysSpace
    \/ GetArraysPerformance
    \/ GetArrayFullReturn
    \/ Respond /\ UNCHANGED prev

Spec == Init /\ [][Next]_vars

\* The pure-fb requests with a host, a token and a command, with
\* `parameters` omitted, empty, or holding an argument.
PairRequests ==
    {[name |-> "pure-fb",
      arguments |-> MkDict([host |-> h, api_token |-> t,
                            command |-> c, parameters |-> p])] :
        h \in Hosts, t \in Tokens, c \in Commands,
        p \in {Absent, Dict(<<>>), Dict([limit |-> PyInt(1)])}}

\* A session of pure-fb calls in which each call is remembered while the
\* next one runs, so that two calls can be compared.
NextPair ==
    \/ \E r \in PairRequests :
         HandleCallTool(r.name, r.arguments) /\ UNCHANGED prev
    \/ InitClient
    \/ PureFb
    \/ CallEndpoint
    \/ JsonLog
    \/ PureFbReturn
    \/ Respond /\ prev' = Summary

SpecPair == Init /\ [][NextPair]_vars

\* ------------------------------------------------ reading the trace back

\* The indices of the trace's events of kind `op`.
EventsOf(tr, op) == {i \in 1..Len(tr) : tr[i].op = op}

\* The call_endpoint events of a trace, in order.
Calls(tr) == SelectSeq(tr, LAMBDA e : e.op = "call_endpoint")

\* The json_log events of a trace, in order.
Serializations(tr) == SelectSeq(tr, LAMBDA e : e.op = "json_log")

\* No facade has been constructed and no call_endpoint made in this call.
NoNetwork ==
    /\ fb_client = Unbound
    /\ EventsOf(trace, "FlashbladeClient") = {}
    /\ EventsOf(trace, "call_endpoint") = {}

\* The arguments hold no non-empty string under `key`.
Lacks(a, key) ==
    \/ a.type # "dict"
    \/ key \notin DOMAIN a.items
    \/ a.items[key].type # "str"
    \/ a.items[key].chars = <<>>

\* A raise of one of the dispatcher's own request checks.
IsValidationError(r) ==
    /\ r.kind = "raise"
    /\ r.exc = "ValueError"
    /\ \/ r.msg \in {<<"Missing arguments">>, <<"Missing host or api_token">>,
                     <<"Missing command">>}
       \/ r.msg[1] = "Unknown tool: "

\* A returned, error-flagged result whose one text block carries `msg`.
IsErrorResult(r, msg) ==
    /\ r.kind = "return"
    /\ r.isError
    /\ Len(r.content) = 1
    /\ r.content[1].type = "text"
    /\ r.content[1].text = <<"Error: ">> \o msg

\* A returned result that is not error-flagged and holds one text block.
IsTextResult(r) ==
    /\ r.kind = "return"
    /\ ~r.isError
    /\ Len(r.content) = 1
    /\ r.content[1].type = "text"

RECURSIVE UnescapeChars(_)
\* The characters a JSON string body stands for.
UnescapeChars(s) ==
    IF s = <<>> THEN <<>>
    ELSE IF Head(s) = "\\" /\ Len(s) >= 2
    THEN <<s[2]>> \o UnescapeChars(SubSeq(s, 3, Len(s)))
    ELSE <<Head(s)>> \o UnescapeChars(Tail(s))

\* The text is a JSON object with the one key "error" and a string value.
IsErrorObject(text) ==
    /\ Len(text) >= 8
    /\ SubSeq(text, 1, 6) = <<"{", "\"", "error", "\"", ": ", "\"">>
    /\ SubSeq(text, Len(text) - 1, Len(text)) = <<"\"", "}">>
    /\ \A i \in 7..(Len(text) - 2) :
         text[i] = "\"" => text[i - 1] = "\\"

\* The value under "error" of such an object.
ErrorMessageOf(text) == UnescapeChars(SubSeq(text, 7, Len(text) - 2))

\* The text is the JSON object {"error": "<what> <label>"}.
IsErrorPayload(text, what, label) ==
    /\ IsErrorObject(text)
    /\ ErrorMessageOf(text) = <<what>> \o label.chars

\* ----------------------------------------------------------------- claims

\* C1: a call of either tool whose arguments lack a non-empty host or a
\* non-empty api_token is rejected by a raise, and at the moment of the
\* rejection no FlashbladeClient has been constructed and no call_endpoint
\* has been made in that call.
C1_RejectsBeforeNetwork ==
    (/\ pc # "idle"
     /\ name \in ToolNames
     /\ Lacks(arguments, "host") \/ Lacks(arguments, "api_token"))
    => (pc = "done" /\ result.kind = "raise" /\ NoNetwork)

\* A get-array-full call with a host and no api_token has been rejected.
C1_Witness ==
    /\ pc = "done"
    /\ name = "get-array-full"
    /\ ~Lacks(arguments, "host")
    /\ Lacks(arguments, "api_token")
    /\ result = Raised("ValueError", <<"Missing host or api_token">>)

\* C2: every validation rejection (unknown tool, missing arguments, missing
\* host or api_token, pure-fb without a command) is raised before any
\* network activity of the call: no FlashbladeClient was constructed and no
\* call_endpoint made before the raise.
C2_ValidationBeforeNetwork ==
    IsValidationError(result) => NoNetwork

\* C3: the only exceptions that leave handle_call_tool are the validation
\* errors; an exception raised after validation (by the construction of the
\* facade or by a call_endpoint) ends the call with a returned, error-flagged
\* result that carries the exception's message.
C3_OnlyValidationErrorsRaise ==
    /\ result.kind = "raise" => IsValidationError(result)
    /\ \A i \in EventsOf(trace, "FlashbladeClient") :
         (pc = "done" /\ trace[i].sdk.kind = "raise"
          /\ trace[i].sdk.exc # "PureError")
         => IsErrorResult(result, trace[i].sdk.msg)
    /\ \A i \in EventsOf(trace, "call_endpoint") :
         trace[i].ret.kind = "raise" => IsErrorResult(result, trace[i].ret.msg)

\* C4: when the SDK raises PureError at the construction of the facade, the
\* constructor does not raise and the facade has no client; every
\* call_endpoint on such a facade returns None without reaching the SDK, for
\* any method name and arguments, and a call that made one ends with a
\* returned, not error-flagged text whose payloads are all the
\* "Invalid response from <label>" object.
C4_ConnectionErrorFailsSoft ==
    /\ \A i \in EventsOf(trace, "FlashbladeClient") :
         (trace[i].sdk.kind = "raise" /\ trace[i].sdk.exc = "PureError")
         => /\ fb_client.type = "FlashbladeClient"
            /\ ~fb_client.has_client
            /\ result.kind = "raise" => IsValidationError(result)
    /\ \A i \in EventsOf(trace, "call_endpoint") :
         ~trace[i].self.has_client
         => trace[i].ret = [kind |-> "return", value |-> None, attempts |-> 0]
    /\ (/\ pc = "done"
        /\ fb_client # Unbound
        /\ ~fb_client.has_client
        /\ EventsOf(trace, "call_endpoint") # {})
       => /\ IsTextResult(result)
          /\ Len(payloads) = Len(Calls(trace))
          /\ \A k \in 1..Len(payloads) :
               IsErrorPayload(payloads[k], "Invalid response from ",
                              Calls(trace)[k].method_name)
          /\ result.content[1].text =
               IF name = "pure-fb" THEN payloads[1]
               ELSE FullText(payloads[1], payloads[2], payloads[3])

\* A get-array-full call on a facade whose construction met PureError has
\* returned its text.
C4_Witness ==
    /\ pc = "done"
    /\ name = "get-array-full"
    /\ fb_client # Unbound
    /\ ~fb_client.has_client
    /\ Len(Calls(trace)) = 3
    /\ IsTextResult(result)

RECURSIVE ParseInt(_)
\* The number a sequence of decimal digits stands for.
ParseInt(ds) ==
    IF ds = <<>> THEN 0
    ELSE 10 * ParseInt(SubSeq(ds, 1, Len(ds) - 1))
         + ((CHOOSE k \in 1..10 : Digits[k] = ds[Len(ds)]) - 1)

\* The text is a JSON array.
IsArray(text) ==
    Len(text) >= 2 /\ text[1] = "[" /\ text[Len(text)] = "]"

RECURSIVE ParseElements(_)
\* The elements of the body of a JSON array of {"id": <number>} objects,
\* in order, each as the dictionary it encodes.
ParseElements(body) ==
    IF body = <<>> THEN <<>>
    ELSE LET close == CHOOSE j \in 1..Len(body) :
                        body[j] = "}" /\ \A k \in 1..(j - 1) : body[k] # "}"
             rest == SubSeq(body, close + 1, Len(body))
         IN  <<[id |-> ParseInt(SubSeq(body, 6, close - 1))]>>
             \o ParseElements(IF rest # <<>> /\ Head(rest) = ", "
                              THEN Tail(rest) ELSE rest)

\* The list a JSON array of item dictionaries decodes to.
ArrayOf(text) == ParseElements(SubSeq(text, 2, Len(text) - 1))

\* json_log classifies a response as valid-with-items when it is a
\* ValidResponse, is truthy and has the attribute `items`.
ValidWithItems(r) == r.type = "ValidResponse" /\ r.truthy /\ r.has_items

\* Every other ValidResponse is valid-but-empty.
ValidButEmpty(r) == r.type = "ValidResponse" /\ ~ValidWithItems(r)

\* The states right after a json_log, before the next statement runs.
AfterSerialization ==
    pc \in {"pure_fb_return", "get_arrays_space", "get_arrays_performance",
            "get_array_full_return"}

\* C6: the string json_log returns is decided by the class of the response:
\* valid with items, the JSON array of the items' dictionary forms, as many
\* as the items and in their order; valid but empty,
\* {"error": "No data available for <label>"}; anything else, None included,
\* {"error": "Invalid response from <label>"}; and the response is the one
\* call_endpoint returned, unchanged.
C6_JsonLogByClass ==
    /\ \A i \in EventsOf(trace, "json_log") :
         LET r == trace[i].response
             label == trace[i].endpoint_name
             text == trace[i].json_data
         IN  /\ ValidWithItems(r)
                => /\ IsArray(text)
                   /\ Len(ArrayOf(text)) = Len(r.items)
                   /\ \A k \in 1..Len(r.items) :
                        ArrayOf(text)[k] = [id |-> r.items[k]]
             /\ ValidButEmpty(r)
                => IsErrorPayload(text, "No data available for ", label)
             /\ r.type # "ValidResponse"
                => IsErrorPayload(text, "Invalid response from ", label)
             /\ trace[i - 1].op = "call_endpoint"
             /\ r = trace[i - 1].ret.value
             /\ label = trace[i - 1].method_name
    /\ AfterSerialization
       => /\ trace[Len(trace) - 1].op = "json_log"
          /\ response = trace[Len(trace) - 1].response
          /\ payloads[Len(payloads)] = trace[Len(trace) - 1].json_data

\* pure-fb has serialized a response of two items, the second-numbered first.
C6_Witness ==
    /\ pc = "pure_fb_return"
    /\ response = ValidResponse(TRUE, TRUE, <<2, 1>>)
    /\ payloads[1] = <<"[", "{", "\"", "id", "\"", ": ", "2", "}", ", ",
                       "{", "\"", "id", "\"", ": ", "1", "}", "]">>

\* A valid but falsy response has been serialized as "No data available".
C6_WitnessEmpty ==
    /\ pc = "pure_fb_return"
    /\ response = ValidResponse(FALSE, TRUE, <<>>)
    /\ method_name = Str(<<"get_buckets">>)
    /\ payloads[1] = <<"{", "\"", "error", "\"", ": ", "\"",
                       "No data available for ", "get_buckets", "\"", "}">>

\* `parameters` is omitted from the arguments, or is {}.
ParametersOmittedOrEmpty(a) ==
    \/ "parameters" \notin DOMAIN a.items
    \/ a.items.parameters = Dict(<<>>)

\* Two argument dicts agree on host, api_token and command.
SameButParameters(a, b) ==
    \A k \in {"host", "api_token", "command"} :
        DictGet(a, k, None) = DictGet(b, k, None)

\* What was passed to call_endpoint, invocation by invocation.
Invocations(tr) ==
    [i \in 1..Len(Calls(tr)) |->
        [method_name |-> Calls(tr)[i].method_name,
         kwargs |-> Calls(tr)[i].kwargs]]

\* What the SDK did in a call: at the construction, then at each method call.
SdkBehaviour(tr) ==
    LET touched == SelectSeq(tr, LAMBDA e :
                       e.op \in {"FlashbladeClient", "call_endpoint"})
    IN  [i \in 1..Len(touched) |-> touched[i].sdk]

\* C7: a pure-fb call with host, api_token and command behaves with
\* `parameters` omitted as it does with `parameters: {}`: once the facade is
\* constructed, call_endpoint is invoked once, with the command and no
\* keyword arguments; and two such calls that differ only in omitting
\* `parameters` or passing {} make the same invocations and end with the same
\* result when the SDK behaves the same.
C7_OmittedParametersAsEmpty ==
    (pc = "done" /\ name = "pure-fb" /\ ParametersOmittedOrEmpty(arguments))
    => /\ fb_client # Unbound
          => Invocations(trace) =
               <<[method_name |-> arguments.items.command,
                  kwargs |-> Dict(<<>>)]>>
       /\ (/\ prev # Unbound
           /\ ParametersOmittedOrEmpty(prev.arguments)
           /\ SameButParameters(prev.arguments, arguments)
           /\ SdkBehaviour(prev.trace) = SdkBehaviour(trace))
          => /\ Invocations(prev.trace) = Invocations(trace)
             /\ prev.result = result

\* A call without `parameters` and then the same call with `parameters: {}`
\* have both returned the serialization of the same itemized response.
C7_Witness ==
    /\ pc = "done"
    /\ prev # Unbound
    /\ "parameters" \notin DOMAIN prev.arguments.items
    /\ "parameters" \in DOMAIN arguments.items
    /\ arguments.items.parameters = Dict(<<>>)
    /\ SameButParameters(prev.arguments, arguments)
    /\ SdkBehaviour(prev.trace) = SdkBehaviour(trace)
    /\ Len(Calls(trace)) = 1
    /\ Calls(trace)[1].sdk = Returned(ValidResponse(TRUE, TRUE, <<1, 2>>))
    /\ IsTextResult(result)
    /\ prev.result = result

\* C8: in every get-array-full call the start_time passed to
\* get_arrays_performance is exactly 7*24*3600*1000 milliseconds less than
\* the end_time passed with it.
C8_WindowIsExactlySevenDays ==
    \A i \in EventsOf(trace, "call_endpoint") :
        trace[i].method_name = Str(<<"get_arrays_performance">>)
        => trace[i].kwargs.items.end_time.val
             - trace[i].kwargs.items.start_time.val = 7 * 24 * 3600 * 1000

\* C9: every call is self-contained.  A call that passes validation
\* constructs exactly one facade, from its own host and api_token; the facade
\* in use is the one constructed in this call, never one of an earlier call;
\* every call_endpoint of the call goes through it; and every response that
\* is serialized is the one the call_endpoint just before it returned.
C9_CallsAreSelfContained ==
    /\ pc \notin {"idle", "init_client"} /\ ~IsValidationError(result)
       => Cardinality(EventsOf(trace, "FlashbladeClient")) = 1
    /\ pc \notin {"idle", "init_client"} /\ result.kind # "raise"
       => fb_client # Unbound
    /\ \A i \in EventsOf(trace, "FlashbladeClient") :
         /\ trace[i].fb_host = arguments.items.host
         /\ trace[i].fb_api_token = arguments.items.api_token
         /\ EventsOf(SubSeq(trace, 1, i), "call_endpoint") = {}
    /\ fb_client # Unbound
       => /\ fb_client.born = callNo
          /\ fb_client.target = arguments.items.host
          /\ fb_client.api_token = arguments.items.api_token
          /\ Cardinality(EventsOf(trace, "FlashbladeClient")) = 1
    /\ \A i \in EventsOf(trace, "call_endpoint") : trace[i].self = fb_client
    /\ \A i \in EventsOf(trace, "json_log") :
         /\ trace[i - 1].op = "call_endpoint"
         /\ trace[i].response = trace[i - 1].ret.value

\* The second call of a session has made its three calls through a facade of
\* its own.
C9_Witness ==
    /\ callNo = 2
    /\ pc = "done"
    /\ fb_client # Unbound
    /\ fb_client.born = 2
    /\ fb_client.target = Str(<<"10.0.0.2">>)
    /\ Len(Calls(trace)) = 3
    /\ IsTextResult(result)

\* The three fetches of get-array-full, in the order of the code.
FetchOrder ==
    <<Str(<<"get_arrays">>), Str(<<"get_arrays_space">>),
      Str(<<"get_arrays_performance">>)>>

\* What a get-array-full call does, in order, when nothing raises: the log
\* line, the construction, then three times an invocation, its
\* serialization and the serializer's log line.
FullOps ==
    <<"send_log_message", "FlashbladeClient",
      "call_endpoint", "json_log", "send_log_message",
      "call_endpoint", "json_log", "send_log_message",
      "call_endpoint", "json_log", "send_log_message">>

\* The text is one of the payloads json_log produces for `label`.
IsPayloadFor(text, label) ==
    \/ IsArray(text)
    \/ IsErrorPayload(text, "No data available for ", label)
    \/ IsErrorPayload(text, "Invalid response from ", label)

\* A get-array-full call has passed validation.
FullCallValidated ==
    name = "get-array-full" /\ pc \notin {"idle", "init_client"}
    /\ ~IsValidationError(result)

=============================================================================
